---- MODULE Spec2Model ----
(***************************************************************************)
(* Model of the log monitoring pipeline: LogMonitor.check_new_logs tails   *)
(* a text file by a tracked offset, LogParser parses and classifies each   *)
(* new line and keeps running counters, AlertSystem and WebhookNotifier    *)
(* dispatch alerts.                                                        *)
(*                                                                         *)
(* The log file is a sequence of units.  A unit is either the newline      *)
(* "nl" or a phrase of log text.  What the regular                         *)
(* expressions of the code find in a phrase is tabulated in TokenRules     *)
(* (catalog rules that match the phrase) and TokenIps (the IPv4-shaped     *)
(* substrings of the phrase, in order of occurrence).                      *)
(***************************************************************************)
EXTENDS Integers, Sequences, FiniteSets, TLC

\* ------------------------------------------------------------------ bounds
\* units written to the log file over a run
MaxWrites == 3

\* ------------------------------------------------------- the file alphabet
NL == "nl"
Whitespace == {NL}
\* FL_A  : "Failed password for root from 10.0.0.1"
\* SQL   : "q=' or 1=1 union select x"
\* ODD_B : text naming 10.0.0.2 that no catalog rule matches and that a
\*         trained scorer flags as an anomaly
Phrases == {"FL_A", "SQL", "ODD_B"}
Tokens == Whitespace \cup Phrases

\* Text that only direct callers of the parser hand in:
\* FP_C  : "Failed password from 10.0.0.1" (no "for <user>")
\* OK    : "Normal log entry"
\* SCAN  : "Port scan from 10.0.0.2 reached 10.0.0.3 10.0.0.4 ... 10.0.0.12"
\* and the line headers of the three grammars of parse_log_line:
\* SYS   : "Jan 15 10:23:45 hostname sshd[1234]: "
\* ISO   : "2024-01-15T10:23:45Z [ERROR] "
\* SIM   : "[2024-01-15 10:23:45] WARNING: "
ScanAddresses ==
    <<"10.0.0.2", "10.0.0.3", "10.0.0.4", "10.0.0.5", "10.0.0.6", "10.0.0.7",
      "10.0.0.8", "10.0.0.9", "10.0.0.10", "10.0.0.11", "10.0.0.12">>

TokenRules(t) ==
    CASE t = "FL_A" -> {"FL1"}
      [] t = "SQL"  -> {"SQL1", "SQL2"}
      [] t = "SCAN" -> {"PS2"}
      [] OTHER      -> {}

TokenIps(t) ==
    CASE t = "FL_A" -> <<"10.0.0.1">>
      [] t = "ODD_B" -> <<"10.0.0.2">>
      [] t = "FP_C" -> <<"10.0.0.1">>
      [] t = "SCAN" -> ScanAddresses
      [] OTHER      -> <<>>

\* ---------------------------------------------------------- patterns.py
FAILED_LOGIN_PATTERNS == <<"FL1", "FL2", "FL3", "FL4", "FL5">>
SQL_INJECTION_PATTERNS == <<"SQL1", "SQL2", "SQL3", "SQL4">>
XSS_PATTERNS == <<"XSS1", "XSS2", "XSS3", "XSS4", "XSS5">>
DIRECTORY_TRAVERSAL_PATTERNS == <<"DT1", "DT2", "DT3", "DT4">>
UNAUTHORIZED_ACCESS_PATTERNS == <<"UA1", "UA2", "UA3", "UA4", "UA5">>
PORT_SCAN_PATTERNS == <<"PS1", "PS2", "PS3">>
PRIVILEGE_ESCALATION_PATTERNS == <<"PE1", "PE2", "PE3", "PE4">>

get_all_patterns ==
    << [threat_type |-> "Failed Login Attempts", patterns |-> FAILED_LOGIN_PATTERNS],
       [threat_type |-> "SQL Injection", patterns |-> SQL_INJECTION_PATTERNS],
       [threat_type |-> "Cross-Site Scripting (XSS)", patterns |-> XSS_PATTERNS],
       [threat_type |-> "Directory Traversal", patterns |-> DIRECTORY_TRAVERSAL_PATTERNS],
       [threat_type |-> "Unauthorized Access", patterns |-> UNAUTHORIZED_ACCESS_PATTERNS],
       [threat_type |-> "Port Scanning", patterns |-> PORT_SCAN_PATTERNS],
       [threat_type |-> "Privilege Escalation", patterns |-> PRIVILEGE_ESCALATION_PATTERNS] >>

\* re.search(pattern, log_line)
re_search(pattern, log_line) ==
    \E i \in 1..Len(log_line) : pattern \in TokenRules(log_line[i])

\* a category that stops at its first matching rule
RECURSIVE CategoryMatches_first(_, _, _)
CategoryMatches_first(threat_type, patterns, log_line) ==
    IF patterns = <<>> THEN <<>>
    ELSE IF re_search(Head(patterns), log_line)
    THEN << <<threat_type, Head(patterns)>> >>
    ELSE CategoryMatches_first(threat_type, Tail(patterns), log_line)

\* the matches of one category, in rule order
RECURSIVE CategoryMatches(_, _, _)
CategoryMatches(threat_type, patterns, log_line) ==
    IF patterns = <<>> THEN <<>>
    ELSE (IF re_search(Head(patterns), log_line)
          THEN << <<threat_type, Head(patterns)>> >>
          ELSE <<>>)
         \o CategoryMatches(threat_type, Tail(patterns), log_line)

RECURSIVE CatalogMatches(_, _)
CatalogMatches(catalog, log_line) ==
    IF catalog = <<>> THEN <<>>
    ELSE CategoryMatches(Head(catalog).threat_type, Head(catalog).patterns, log_line)
         \o CatalogMatches(Tail(catalog), log_line)

check_patterns(log_line) == CatalogMatches(get_all_patterns, log_line)

\* re.findall(ip_pattern, raw_line)
RECURSIVE findall_ips(_)
findall_ips(raw_line) ==
    IF raw_line = <<>> THEN <<>>
    ELSE TokenIps(Head(raw_line)) \o findall_ips(Tail(raw_line))

\* ------------------------------------------------- insertion-ordered dicts
DictHas(d, k) == \E i \in 1..Len(d) : d[i].k = k
DictGet(d, k) ==
    IF DictHas(d, k) THEN d[CHOOSE i \in 1..Len(d) : d[i].k = k].n ELSE 0
\* a store that keeps only the counter written last
DictInc_last(d, k) == <<[k |-> k, n |-> DictGet(d, k) + 1]>>

DictInc(d, k) ==
    IF DictHas(d, k)
    THEN [i \in 1..Len(d) |-> IF d[i].k = k THEN [k |-> k, n |-> d[i].n + 1] ELSE d[i]]
    ELSE Append(d, [k |-> k, n |-> 1])
RECURSIVE DictSum(_)
DictSum(d) == IF d = <<>> THEN 0 ELSE Head(d).n + DictSum(Tail(d))


\* ------------------------------------------------------------ log_parser.py
\* LogEntry(timestamp, level, message, raw_line), threats = []
\* an entry that keeps the message in place of the line it was built from
LogEntry_message(timestamp, level, message, raw_line) ==
    [timestamp |-> timestamp, level |-> level, message |-> message,
     raw_line |-> message, threats |-> <<>>]

\* LogEntry.__init__
LogEntry(timestamp, level, message, raw_line) ==
    [timestamp |-> timestamp, level |-> level, message |-> message,
     raw_line |-> raw_line, threats |-> <<>>]

\* an entry that puts its newest threat first
add_threat_front(log_entry, threat_type, pattern) ==
    [log_entry EXCEPT !.threats = <<<<threat_type, pattern>>>> \o @]

\* self.threats.append((threat_type, pattern))
add_threat(log_entry, threat_type, pattern) ==
    [log_entry EXCEPT !.threats = Append(@, <<threat_type, pattern>>)]

\* a test that looks at the threats of the pattern catalog only
is_suspicious_catalog(log_entry) ==
    \E t \in 1..Len(log_entry.threats) : log_entry.threats[t][1] # "ML Anomaly Detection"

is_suspicious(log_entry) == Len(log_entry.threats) > 0

\* the three line grammars: the header each one requires at the start of
\* the line, and the groups it captures from it
syslog_pattern == [header |-> "SYS", timestamp |-> "Jan 15 10:23:45", level |-> "sshd"]
iso_pattern == [header |-> "ISO", timestamp |-> "2024-01-15T10:23:45Z", level |-> "ERROR"]
simple_pattern == [header |-> "SIM", timestamp |-> "2024-01-15 10:23:45", level |-> "WARNING"]

\* a match that asks for the header only
re_match_lax(pattern, line) == line # <<>> /\ line[1] = pattern.header

\* re.match(pattern, line): anchored at the start of the line; the message
\* group (.+) needs one character that is not a newline
re_match(pattern, line) ==
    Len(line) >= 2 /\ line[1] = pattern.header /\ line[2] # NL

\* what (.+) captures: the text up to the first newline
RECURSIVE UpToNewline(_)
UpToNewline(text) ==
    IF text = <<>> \/ Head(text) = NL THEN <<>>
    ELSE <<Head(text)>> \o UpToNewline(Tail(text))

\* datetime.now().strftime(...)
Now == "now"

parse_log_line(line) ==
    IF re_match(syslog_pattern, line)
    THEN LogEntry(syslog_pattern.timestamp, syslog_pattern.level, UpToNewline(Tail(line)), line)
    ELSE IF re_match(iso_pattern, line)
    THEN LogEntry(iso_pattern.timestamp, iso_pattern.level, UpToNewline(Tail(line)), line)
    ELSE IF re_match(simple_pattern, line)
    THEN LogEntry(simple_pattern.timestamp, simple_pattern.level, UpToNewline(Tail(line)), line)
    ELSE LogEntry(Now, "UNKNOWN", line, line)

\* for threat_type, pattern in matches: add_threat; threat_counts[threat_type] += 1
RECURSIVE RecordMatches(_, _, _)
RecordMatches(counts, log_entry, matches) ==
    IF matches = <<>> THEN [threat_counts |-> counts, log_entry |-> log_entry]
    ELSE RecordMatches(DictInc(counts, Head(matches)[1]),
                       add_threat(log_entry, Head(matches)[1], Head(matches)[2]),
                       Tail(matches))

\* counting only the first address found
RecordIps_first(ipcounts, log_entry, ips) ==
    IF ips # <<>> /\ is_suspicious(log_entry) THEN DictInc(ipcounts, Head(ips)) ELSE ipcounts

\* counting the addresses of every entry, suspicious or not
RECURSIVE RecordIps_any(_, _, _)
RecordIps_any(ipcounts, log_entry, ips) ==
    IF ips = <<>> THEN ipcounts
    ELSE RecordIps_any(DictInc(ipcounts, Head(ips)), log_entry, Tail(ips))

\* for ip in ips: if log_entry.is_suspicious(): suspicious_ips[ip] += 1
RECURSIVE RecordIps(_, _, _)
RecordIps(ipcounts, log_entry, ips) ==
    IF ips = <<>> THEN ipcounts
    ELSE RecordIps(IF is_suspicious(log_entry) THEN DictInc(ipcounts, Head(ips)) ELSE ipcounts,
                   log_entry, Tail(ips))

\* parser is [threat_counts, suspicious_ips]; the result carries the updated
\* parser and the updated entry
analyze_log_entry(parser, log_entry) ==
    LET m == RecordMatches(parser.threat_counts, log_entry, check_patterns(log_entry.raw_line))
    IN  [threat_counts |-> m.threat_counts,
         suspicious_ips |-> RecordIps(parser.suspicious_ips, m.log_entry,
                                      findall_ips(log_entry.raw_line)),
         log_entry |-> m.log_entry]

\* sorted(items, key=count, reverse=True): stable, descending by count
\* a sort that puts an item before the items of equal count
RECURSIVE InsertDesc_front(_, _)
InsertDesc_front(sorted, item) ==
    IF sorted = <<>> THEN <<item>>
    ELSE IF Head(sorted).n > item.n
    THEN <<Head(sorted)>> \o InsertDesc_front(Tail(sorted), item)
    ELSE <<item>> \o sorted

RECURSIVE InsertDesc(_, _)
InsertDesc(sorted, item) ==
    IF sorted = <<>> THEN <<item>>
    ELSE IF Head(sorted).n >= item.n THEN <<Head(sorted)>> \o InsertDesc(Tail(sorted), item)
    ELSE <<item>> \o sorted
RECURSIVE SortedDesc(_)
SortedDesc(d) ==
    IF d = <<>> THEN <<>> ELSE InsertDesc(SortedDesc(SubSeq(d, 1, Len(d) - 1)), d[Len(d)])

TopN == 10

\* A dictionary object: which object it is (the parser's attribute of that
\* name, or a "new" one) and the items it held when the reference was taken.
\* A reference to a parser attribute is read through the attribute.
Attr(name, items) == [id |-> name, items |-> items]

\* handing out the parser's own dictionary
dict_same(obj) == obj

\* dict(d): a new dictionary with the items of d
dict(obj) == [id |-> "new", items |-> obj.items]

get_statistics(parser) ==
    [total_threats |-> DictSum(parser.threat_counts),
     threats_by_type |-> dict(Attr("threat_counts", parser.threat_counts)),
     suspicious_ips |-> dict(Attr("suspicious_ips", parser.suspicious_ips)),
     top_suspicious_ips |->
        LET s == SortedDesc(parser.suspicious_ips)
        IN  SubSeq(s, 1, IF Len(s) < TopN THEN Len(s) ELSE TopN)]

\* a reset that forgets the categories and keeps the addresses
reset_statistics_counts(parser) ==
    [threat_counts |-> <<>>, suspicious_ips |-> parser.suspicious_ips]

\* threat_counts.clear(); suspicious_ips.clear()
reset_statistics(parser) == [threat_counts |-> <<>>, suspicious_ips |-> <<>>]

\* [entry for entry in entries if entry.is_suspicious()]
RECURSIVE get_suspicious_entries(_)
get_suspicious_entries(es) ==
    IF es = <<>> THEN <<>>
    ELSE (IF is_suspicious(Head(es)) THEN <<Head(es)>> ELSE <<>>)
         \o get_suspicious_entries(Tail(es))

\* ------------------------------------------------------------ ml_detector.py
\* MLAnomalyDetector.predict: score in hundredths
predict(trained, log_message) ==
    IF ~trained THEN [is_anomaly |-> FALSE, score |-> 0]
    ELSE IF \E i \in 1..Len(log_message) : log_message[i] = "ODD_B"
    THEN [is_anomaly |-> TRUE, score |-> 70]
    ELSE [is_anomaly |-> FALSE, score |-> 40]

ScoreCut == 50

\* ----------------------------------------------------------- alert_system.py
\* A configuration is what json.load returned: which sections and keys it
\* has, and their values.
\*   has_monitoring, has_email : the section is present
\*   enable_email_alerts       : monitoring.enable_email_alerts (absent = FALSE)
\*   has_threshold, alert_threshold : monitoring.alert_threshold
\*   credentials               : sender_email, sender_password and
\*                               recipient_email are all non-empty
DefaultThreshold == 5

_get_default_config ==
    [has_monitoring |-> TRUE, has_email |-> TRUE, enable_email_alerts |-> FALSE,
     has_threshold |-> TRUE, alert_threshold |-> 5, credentials |-> FALSE]

SmtpOutcomes == {"ok", "auth_error", "smtp_error", "transport_error"}

\* a counter of the SMTP sessions opened, delivered or not
send_alert_attempts(cfg, count, smtp) ==
    IF ~cfg.has_monitoring
    THEN [ret |-> "raised", alert_count |-> count, session |-> FALSE, log |-> "KeyError"]
    ELSE IF ~cfg.enable_email_alerts
    THEN [ret |-> "false", alert_count |-> count, session |-> FALSE, log |-> "disabled"]
    ELSE IF ~cfg.has_email
    THEN [ret |-> "raised", alert_count |-> count, session |-> FALSE, log |-> "KeyError"]
    ELSE IF ~cfg.credentials
    THEN [ret |-> "false", alert_count |-> count, session |-> FALSE, log |-> "incomplete"]
    ELSE [ret |-> IF smtp = "ok" THEN "true" ELSE "false", alert_count |-> count + 1,
          session |-> TRUE, log |-> IF smtp = "ok" THEN "sent" ELSE smtp]

\* ret is "true" / "false", or "raised" when an exception leaves the call
send_alert(cfg, count, smtp) ==
    IF ~cfg.has_monitoring
    THEN [ret |-> "raised", alert_count |-> count, session |-> FALSE, log |-> "KeyError"]
    ELSE IF ~cfg.enable_email_alerts
    THEN [ret |-> "false", alert_count |-> count, session |-> FALSE, log |-> "disabled"]
    ELSE IF ~cfg.has_email
    THEN [ret |-> "raised", alert_count |-> count, session |-> FALSE, log |-> "KeyError"]
    ELSE IF ~cfg.credentials
    THEN [ret |-> "false", alert_count |-> count, session |-> FALSE, log |-> "incomplete"]
    ELSE IF smtp = "ok"
    THEN [ret |-> "true", alert_count |-> count + 1, session |-> TRUE, log |-> "sent"]
    ELSE [ret |-> "false", alert_count |-> count, session |-> TRUE, log |-> smtp]

\* fired: the alert (subject and body) was built and handed to send_alert
send_threat_alert(cfg, count, suspicious_entries, statistics, smtp) ==
    IF suspicious_entries = <<>>
    THEN [ret |-> "false", alert_count |-> count, session |-> FALSE, log |-> "", fired |-> FALSE]
    ELSE IF ~cfg.has_monitoring
    THEN [ret |-> "raised", alert_count |-> count, session |-> FALSE, log |-> "KeyError",
          fired |-> FALSE]
    ELSE LET threshold == IF cfg.has_threshold THEN cfg.alert_threshold ELSE DefaultThreshold
             threat_count == statistics.total_threats
         IN  IF threat_count < threshold
             THEN [ret |-> "false", alert_count |-> count, session |-> FALSE,
                   log |-> "below threshold", fired |-> FALSE]
             ELSE [fired |-> TRUE] @@ send_alert(cfg, count, smtp)

\* ------------------------------------------------------- webhook_notifier.py
HttpOutcomes == {"200", "500", "exception"}

\* posted: requests.post was called
send_slack_message(slack_on, severity, http) ==
    IF ~slack_on
    THEN [ret |-> "false", posted |-> FALSE, severity |-> severity, log |-> ""]
    ELSE IF http = "200"
    THEN [ret |-> "true", posted |-> TRUE, severity |-> severity, log |-> "sent"]
    ELSE [ret |-> "false", posted |-> TRUE, severity |-> severity, log |-> http]

\* the boundaries moved to 10 and 20 inclusive
SeverityOf_inclusive(threat_count) ==
    IF threat_count > 20 THEN "critical"
    ELSE IF threat_count >= 10 THEN "error"
    ELSE "warning"

\* severity = "critical" if threat_count > 20 else "error" if threat_count > 10 else "warning"
SeverityOf(threat_count) ==
    IF threat_count > 20 THEN "critical"
    ELSE IF threat_count > 10 THEN "error"
    ELSE "warning"

send_threat_alert_slack(slack_on, suspicious_entries, statistics, http) ==
    IF suspicious_entries = <<>>
    THEN [ret |-> "false", posted |-> FALSE, severity |-> "none", log |-> ""]
    ELSE send_slack_message(slack_on, SeverityOf(statistics.total_threats), http)

\* --------------------------------------------------------------- database.py
\* DatabaseManager.add_security_event: the row that is committed
add_security_event(log_entry) ==
    LET ips == findall_ips(log_entry.raw_line)
    IN  [is_suspicious |-> is_suspicious(log_entry),
         source_ip |-> IF ips # <<>> THEN ips[1] ELSE "None"]

\* ---------------------------------------------------------------- monitor.py
VARIABLES
    log_file,        \* content of the file at log_file_path
    file_exists,     \* os.path.exists(log_file_path)
    last_position,   \* LogMonitor.last_position
    threat_counts,   \* LogParser.threat_counts, in insertion order
    suspicious_ips,  \* LogParser.suspicious_ips, in insertion order
    alert_count,     \* AlertSystem.alert_count
    config,          \* AlertSystem.config
    slack_on,        \* WebhookNotifier: enable_slack and slack_webhook_url set
    enable_ml,       \* LogMonitor.enable_ml
    is_trained,      \* MLAnomalyDetector.is_trained
    db,              \* rows of security_events, in commit order
    entries,         \* every LogEntry the passes built, as it was left
    reads,           \* the byte ranges <<from, to>> read by the passes
    written,         \* units written to the log file so far
    last,            \* outcome of the latest check_new_logs call: what it saw
                     \* (found, file_size, start), the sizes of new_lines and
                     \* of suspicious_entries, the total it dispatched with,
                     \* what it returned and what each channel did
    pc,              \* where the process is: "new" (main() not yet past
                     \* LogMonitor(...)), "idle" (between two passes), "lines"
                     \* (inside check_new_logs, after the read), "exited"
                     \* (sys.exit), "stopped" (the loop was left)
    config_file,     \* the file at config_path: status "valid", "missing" or
                     \* "invalid" (not JSON), and the configuration it holds
    pending,         \* the lines of new_lines the for loop has not reached yet
    collected,       \* suspicious_entries of the pass in progress
    summaries,       \* number of print_summary calls
    interrupted,     \* where KeyboardInterrupt was raised: "no", "idle", "lines"
    snapshot,        \* the value a caller holds from its latest get_statistics
                     \* call
    mark,            \* len(entries) when reset_statistics was last called
    classified,      \* the check_patterns calls made directly: line and result
    filtered,        \* the latest get_suspicious_entries call: input and result
    instances,       \* the counters of each LogParser a caller built, by the
                     \* object that holds the attributes
    calls            \* the analyze_log_entry and reset_statistics calls made
                     \* on those parsers: parser, operation, line

vars == <<log_file, file_exists, last_position, threat_counts, suspicious_ips,
          alert_count, config, slack_on, enable_ml, is_trained, db, entries,
          reads, written, last, pc, config_file, pending, collected, summaries,
          interrupted, snapshot, mark, classified, filtered, instances, calls>>

\* the process state that only main() and run_continuous_monitoring move
run == <<pc, config_file, pending, collected, summaries, interrupted>>

\* what only direct callers of LogParser and SecurityPatterns move
api == <<snapshot, mark, classified, filtered, instances, calls>>

\* the parsers callers build side by side
ParserNames == {"p1", "p2"}

\* a parser whose counters are attributes of the class, shared by its instances
class_attributes(instance) == "LogParser"

\* LogParser.__init__ binds threat_counts and suspicious_ips to self: the
\* object that holds the counters of an instance is the instance
self_attributes(instance) == instance

\* LogParser(): two empty defaultdict(int)
LogParser_init == [threat_counts |-> <<>>, suspicious_ips |-> <<>>]

FreshInstances == [o \in {self_attributes(p) : p \in ParserNames} |-> LogParser_init]

\* f.readlines(): the text cut after every newline
RECURSIVE readlines(_)
readlines(text) ==
    IF text = <<>> THEN <<>>
    ELSE IF \E i \in 1..Len(text) : text[i] = NL
    THEN LET k == CHOOSE i \in 1..Len(text) :
                    text[i] = NL /\ \A j \in 1..(i - 1) : text[j] # NL
         IN  <<SubSeq(text, 1, k)>> \o readlines(SubSeq(text, k + 1, Len(text)))
    ELSE <<text>>

\* str.strip()
RECURSIVE lstrip(_)
lstrip(line) ==
    IF line # <<>> /\ Head(line) \in Whitespace THEN lstrip(Tail(line)) ELSE line
RECURSIVE rstrip(_)
rstrip(line) ==
    IF line # <<>> /\ line[Len(line)] \in Whitespace
    THEN rstrip(SubSeq(line, 1, Len(line) - 1)) ELSE line
\* a strip that leaves the line as it is
strip_none(line) == line

strip(line) == rstrip(lstrip(line))

\* LogParser.parse_log_file: the loop over the lines of the file; a file that
\* is missing is reported and gives no entry
RECURSIVE ParseLines(_, _)
ParseLines(lines, st) ==
    IF lines = <<>> THEN st
    ELSE LET line == strip(Head(lines))
         IN  IF line = <<>> THEN ParseLines(Tail(lines), st)
             ELSE LET a == analyze_log_entry(st, parse_log_line(line))
                  IN  ParseLines(Tail(lines),
                                 [threat_counts |-> a.threat_counts,
                                  suspicious_ips |-> a.suspicious_ips,
                                  entries |-> Append(st.entries, a.log_entry)])

parse_log_file(parser, exists, text) ==
    LET st == [threat_counts |-> parser.threat_counts,
               suspicious_ips |-> parser.suspicious_ips, entries |-> <<>>]
    IN  IF exists THEN ParseLines(readlines(text), st) ELSE st

\* a scorer step that ignores the ML switch and the trained flag
ScoreEntry_ungated(ml_on, trained, log_entry) ==
    LET p == predict(TRUE, log_entry.raw_line)
    IN  IF p.is_anomaly /\ p.score > ScoreCut
        THEN add_threat(log_entry, "ML Anomaly Detection", p.score)
        ELSE log_entry

\* the scorer step of the loop body
ScoreEntry(ml_on, trained, log_entry) ==
    IF ml_on /\ trained
    THEN LET p == predict(trained, log_entry.raw_line)
         IN  IF p.is_anomaly /\ p.score > ScoreCut
             THEN add_threat(log_entry, "ML Anomaly Detection", p.score)
             ELSE log_entry
    ELSE log_entry

\* The for loop of check_new_logs.  st carries the parser's counters, the
\* entries built, the rows committed, the batch, the number of event-store
\* calls made and whether one of them raised; db_fail_at is the call of this
\* pass that raises (0: none).
RECURSIVE ProcessLines(_, _, _, _, _)
ProcessLines(new_lines, st, ml_on, trained, db_fail_at) ==
    IF new_lines = <<>> \/ st.raised THEN st
    ELSE LET line == strip(Head(new_lines))
         IN  IF line = <<>>
             THEN ProcessLines(Tail(new_lines), st, ml_on, trained, db_fail_at)
             ELSE LET a == analyze_log_entry(st, parse_log_line(line))
                      e == ScoreEntry(ml_on, trained, a.log_entry)
                      fails == db_fail_at = st.calls + 1
                  IN  ProcessLines(Tail(new_lines),
                        [threat_counts |-> a.threat_counts,
                         suspicious_ips |-> a.suspicious_ips,
                         entries |-> Append(st.entries, e),
                         db |-> IF fails THEN st.db ELSE Append(st.db, add_security_event(e)),
                         suspicious_entries |->
                            IF ~fails /\ is_suspicious(e)
                            THEN Append(st.suspicious_entries, e)
                            ELSE st.suspicious_entries,
                         calls |-> st.calls + 1,
                         raised |-> fails],
                        ml_on, trained, db_fail_at)

NoEmail == [called |-> FALSE, ret |-> "none", fired |-> FALSE, session |-> FALSE, log |-> ""]
NoSlack == [called |-> FALSE, ret |-> "none", posted |-> FALSE, severity |-> "none", log |-> ""]
NoCall ==
    [called |-> FALSE, found |-> FALSE, file_size |-> 0, start |-> 0, new_lines |-> 0,
     suspicious_entries |-> 0, total_threats |-> 0, ret |-> "none", error |-> FALSE,
     log |-> "", email |-> NoEmail, slack |-> NoSlack]

\* no get_statistics call yet, no get_suspicious_entries call yet
NoSnapshot ==
    [taken |-> FALSE,
     stats |-> get_statistics([threat_counts |-> <<>>, suspicious_ips |-> <<>>])]
NoFilter == [called |-> FALSE, input |-> <<>>, result |-> <<>>]

\* a missing file that goes unreported
FileNotFound_silent(position) ==
    [NoCall EXCEPT !.called = TRUE, !.start = position, !.ret = "false"]

\* if not os.path.exists(log_file_path): print the warning, return False
FileNotFound(position) ==
    [NoCall EXCEPT !.called = TRUE, !.start = position, !.ret = "false",
                   !.log = "Warning: Log file not found"]

\* a poll without new data that reports new logs
NotGrown_true(file_size, position) ==
    [NoCall EXCEPT !.called = TRUE, !.found = TRUE, !.file_size = file_size,
                   !.start = position, !.ret = "true"]

\* if file_size <= self.last_position: return False
NotGrown(file_size, position) ==
    [NoCall EXCEPT !.called = TRUE, !.found = TRUE, !.file_size = file_size,
                   !.start = position, !.ret = "false"]

\* a pass that lets the error of the file system out
ReadError_raised(position) ==
    [NoCall EXCEPT !.called = TRUE, !.found = TRUE, !.start = position,
                   !.ret = "raised", !.error = TRUE]

\* os.path.getsize or open raises (the file is unreadable, or gone since the
\* exists test): the handler at line 131 prints the error and returns False
ReadError(position) ==
    [NoCall EXCEPT !.called = TRUE, !.found = TRUE, !.start = position,
                   !.ret = "false", !.error = TRUE, !.log = "Error checking logs"]

\* a tailer that reads but does not advance
tell_stale(position, text) == position

\* a tailer that holds back a final line with no newline yet
tell_whole_lines(position, text) ==
    position + (IF text # <<>> /\ text[Len(text)] # NL
                THEN Len(text) - Len(readlines(text)[Len(readlines(text))])
                ELSE Len(text))

\* f.seek(position); f.readlines(); f.tell(): the position after the read
tell(position, text) == position + Len(text)

\* the non-blank lines among new_lines: the add_security_event calls of a
\* pass that runs to the end of its batch
RECURSIVE NonBlank(_)
NonBlank(new_lines) ==
    IF new_lines = <<>> THEN 0
    ELSE (IF strip(Head(new_lines)) = <<>> THEN 0 ELSE 1) + NonBlank(Tail(new_lines))

\* The dispatch step of check_new_logs (lines 115-127 and the handler at
\* 131): st is the state the loop left.  stats_fail: update_daily_statistics
\* raises; smtp, http: what the mail server and the webhook endpoint answer.
Dispatch(st, cfg, count, slack, stats_fail, smtp, http) ==
    LET batch == ~st.raised /\ st.suspicious_entries # <<>>
        statistics == get_statistics(st)
        em == IF batch /\ ~stats_fail
              THEN [called |-> TRUE] @@
                   send_threat_alert(cfg, count, st.suspicious_entries, statistics, smtp)
              ELSE NoEmail @@ [alert_count |-> count]
        sl == IF batch /\ ~stats_fail /\ em.ret # "raised"
              THEN [called |-> TRUE] @@
                   send_threat_alert_slack(slack, st.suspicious_entries, statistics, http)
              ELSE NoSlack
        error == st.raised \/ (batch /\ stats_fail) \/ em.ret = "raised"
    IN  [alert_count |-> em.alert_count,
         total_threats |-> statistics.total_threats,
         ret |-> IF error THEN "false" ELSE "true",
         error |-> error,
         email |-> [called |-> em.called, ret |-> em.ret, fired |-> em.fired,
                    session |-> em.session, log |-> em.log],
         slack |-> sl]

\* What the mail server and the webhook endpoint answer during a monitoring
\* pass: success or failure.  The three SMTP handlers differ in the message
\* they print only, and so do a non-200 answer and a failed request; the
\* dispatcher on its own is run with all of them.
PassSmtpOutcomes == {"ok", "smtp_error"}
PassHttpOutcomes == {"200", "exception"}

\* One call of LogMonitor.check_new_logs.  db_fail_at is the
\* add_security_event call of the pass that raises (0: none).
CheckNewLogs ==
    IF ~file_exists
    THEN /\ last' = FileNotFound(last_position)
         /\ UNCHANGED <<log_file, file_exists, last_position, threat_counts, suspicious_ips,
                        alert_count, config, slack_on, enable_ml, is_trained, db, entries,
                        reads, written, run, api>>
    ELSE LET file_size == Len(log_file)
         IN  IF file_size <= last_position
             THEN /\ last' = NotGrown(file_size, last_position)
                  /\ UNCHANGED <<log_file, file_exists, last_position, threat_counts,
                                 suspicious_ips, alert_count, config, slack_on, enable_ml,
                                 is_trained, db, entries, reads, written, run, api>>
             ELSE LET text == SubSeq(log_file, last_position + 1, file_size)
                      new_lines == readlines(text)
                  IN  \E db_fail_at \in 0..NonBlank(new_lines) :
                      \E st \in {ProcessLines(new_lines,
                                  [threat_counts |-> threat_counts,
                                   suspicious_ips |-> suspicious_ips,
                                   entries |-> entries, db |-> db,
                                   suspicious_entries |-> <<>>, calls |-> 0,
                                   raised |-> FALSE],
                                  enable_ml, is_trained, db_fail_at)} :
                          \E stats_fail \in BOOLEAN, smtp \in PassSmtpOutcomes,
                             http \in PassHttpOutcomes :
                          \E d \in {Dispatch(st, config, alert_count, slack_on,
                                             stats_fail, smtp, http)} :
                              /\ last_position' = tell(last_position, text)
                              /\ reads' = Append(reads, <<last_position,
                                                          last_position + Len(text)>>)
                              /\ threat_counts' = st.threat_counts
                              /\ suspicious_ips' = st.suspicious_ips
                              /\ entries' = st.entries
                              /\ db' = st.db
                              /\ alert_count' = d.alert_count
                              /\ last' = [called |-> TRUE, found |-> TRUE,
                                          file_size |-> file_size,
                                          start |-> last_position,
                                          new_lines |-> Len(new_lines),
                                          suspicious_entries |->
                                              Len(st.suspicious_entries),
                                          total_threats |-> d.total_threats,
                                          ret |-> d.ret, error |-> d.error,
                                          log |-> IF d.error
                                                  THEN "Error checking logs" ELSE "",
                                          email |-> d.email, slack |-> d.slack]
                              /\ UNCHANGED <<log_file, file_exists, config, slack_on,
                                             enable_ml, is_trained, written, run, api>>

\* ------------------------------------------------- whoever writes the log
AppendLog ==
    /\ written < MaxWrites
    /\ \E t \in Tokens : log_file' = Append(log_file, t)
    /\ file_exists' = TRUE
    /\ written' = written + 1
    /\ UNCHANGED <<last_position, threat_counts, suspicious_ips, alert_count, config,
                   slack_on, enable_ml, is_trained, db, entries, reads, last, run, api>>

\* the file is deleted or moved away
RemoveLog ==
    /\ file_exists
    /\ file_exists' = FALSE
    /\ log_file' = <<>>
    /\ UNCHANGED <<last_position, threat_counts, suspicious_ips, alert_count, config,
                   slack_on, enable_ml, is_trained, db, entries, reads, written, last,
                   run, api>>

\* the file is emptied in place
TruncateLog ==
    /\ file_exists
    /\ log_file # <<>>
    /\ log_file' = <<>>
    /\ UNCHANGED <<file_exists, last_position, threat_counts, suspicious_ips, alert_count,
                   config, slack_on, enable_ml, is_trained, db, entries, reads, written,
                   last, run, api>>

\* configurations the monitor can run continuous monitoring with: the
\* monitoring section is present (run_continuous_monitoring reads it first)
Threshold == 2
MonitorConfigs ==
    { [has_monitoring |-> TRUE, has_email |-> he, enable_email_alerts |-> en,
       has_threshold |-> TRUE, alert_threshold |-> Threshold, credentials |-> he] :
        he \in BOOLEAN, en \in BOOLEAN } \ 
    { [has_monitoring |-> TRUE, has_email |-> FALSE, enable_email_alerts |-> FALSE,
       has_threshold |-> TRUE, alert_threshold |-> Threshold, credentials |-> FALSE] }

Init ==
    /\ log_file = <<>>
    /\ file_exists = FALSE
    /\ last_position = 0
    /\ threat_counts = <<>>
    /\ suspicious_ips = <<>>
    /\ alert_count = 0
    /\ config \in MonitorConfigs
    /\ slack_on \in BOOLEAN
    /\ enable_ml = TRUE
    /\ is_trained \in BOOLEAN
    /\ db = <<>>
    /\ entries = <<>>
    /\ reads = <<>>
    /\ written = 0
    /\ last = NoCall
    /\ pc = "idle"
    /\ config_file = [status |-> "valid", content |-> config]
    /\ pending = <<>>
    /\ collected = <<>>
    /\ summaries = 0
    /\ interrupted = "no"
    /\ snapshot = NoSnapshot
    /\ mark = 0
    /\ classified = <<>>
    /\ filtered = NoFilter
    /\ instances = FreshInstances
    /\ calls = <<>>

Next == CheckNewLogs \/ AppendLog \/ TruncateLog \/ RemoveLog

Spec == Init /\ [][Next]_vars

\* ------------------------------------------------ the dispatcher on its own
\* AlertSystem and WebhookNotifier called directly (cli.py, demo.py,
\* run_one_time_analysis): any batch, any statistics snapshot, any
\* configuration json.load can return.
MaxCount == 22
MaxAlerts == 2

DispatchThresholds == {0, Threshold, DefaultThreshold}

AllConfigs ==
    { [has_monitoring |-> hm, has_email |-> he, enable_email_alerts |-> en,
       has_threshold |-> TRUE, alert_threshold |-> th, credentials |-> cr] :
        hm \in BOOLEAN, he \in BOOLEAN, en \in BOOLEAN, cr \in BOOLEAN,
        th \in DispatchThresholds }
    \cup
    { [has_monitoring |-> hm, has_email |-> he, enable_email_alerts |-> en,
       has_threshold |-> FALSE, alert_threshold |-> 0, credentials |-> cr] :
        hm \in BOOLEAN, he \in BOOLEAN, en \in BOOLEAN, cr \in BOOLEAN }

EntryOf(line) == analyze_log_entry([threat_counts |-> <<>>, suspicious_ips |-> <<>>],
                                   parse_log_line(line)).log_entry

SampleBatches == { <<>>, <<EntryOf(<<"FL_A">>)>>, <<EntryOf(<<"FL_A">>), EntryOf(<<"SQL">>)>> }

Snapshot(total) ==
    [total_threats |-> total, threats_by_type |-> dict(Attr("threat_counts", <<>>)),
     suspicious_ips |-> dict(Attr("suspicious_ips", <<>>)), top_suspicious_ips |-> <<>>]

SendThreatAlert ==
    /\ alert_count < MaxAlerts
    /\ \E batch \in SampleBatches, total \in 0..MaxCount, smtp \in SmtpOutcomes :
       \E r \in {send_threat_alert(config, alert_count, batch, Snapshot(total), smtp)} :
          /\ alert_count' = r.alert_count
          /\ last' = [NoCall EXCEPT !.suspicious_entries = Len(batch),
                                    !.total_threats = total,
                                    !.email = [called |-> TRUE, ret |-> r.ret,
                                               fired |-> r.fired, session |-> r.session,
                                               log |-> r.log]]
    /\ UNCHANGED <<log_file, file_exists, last_position, threat_counts, suspicious_ips,
                   config, slack_on, enable_ml, is_trained, db, entries, reads, written,
                   run, api>>

SendThreatAlertSlack ==
    /\ \E batch \in SampleBatches, total \in 0..MaxCount, http \in HttpOutcomes :
       \E r \in {send_threat_alert_slack(slack_on, batch, Snapshot(total), http)} :
          last' = [NoCall EXCEPT !.suspicious_entries = Len(batch),
                                 !.total_threats = total,
                                 !.slack = [called |-> TRUE] @@ r]
    /\ UNCHANGED <<log_file, file_exists, last_position, threat_counts, suspicious_ips,
                   alert_count, config, slack_on, enable_ml, is_trained, db, entries,
                   reads, written, run, api>>

InitDispatch ==
    /\ log_file = <<>>
    /\ file_exists = FALSE
    /\ last_position = 0
    /\ threat_counts = <<>>
    /\ suspicious_ips = <<>>
    /\ alert_count = 0
    /\ config \in AllConfigs
    /\ slack_on \in BOOLEAN
    /\ enable_ml = TRUE
    /\ is_trained = FALSE
    /\ db = <<>>
    /\ entries = <<>>
    /\ reads = <<>>
    /\ written = 0
    /\ last = NoCall
    /\ pc = "idle"
    /\ config_file = [status |-> "valid", content |-> config]
    /\ pending = <<>>
    /\ collected = <<>>
    /\ summaries = 0
    /\ interrupted = "no"
    /\ snapshot = NoSnapshot
    /\ mark = 0
    /\ classified = <<>>
    /\ filtered = NoFilter
    /\ instances = FreshInstances
    /\ calls = <<>>

NextDispatch == SendThreatAlert \/ SendThreatAlertSlack

SpecDispatch == InitDispatch /\ [][NextDispatch]_vars

\* ------------------------------------------------- main(): the whole process
\* main() without --test: monitor = LogMonitor(args.config), then
\* run_continuous_monitoring(), one statement group at a time, so that
\* KeyboardInterrupt can arrive between any two of them.

\* what json.load returns for "{}": no section at all; also the value of
\* config before anything was loaded
EmptyConfig ==
    [has_monitoring |-> FALSE, has_email |-> FALSE, enable_email_alerts |-> FALSE,
     has_threshold |-> FALSE, alert_threshold |-> 0, credentials |-> FALSE]

\* FileNotFoundError, json.JSONDecodeError
Unreadable == {"missing", "invalid"}

\* LogMonitor._load_config: json.load's result, or sys.exit(1)
LogMonitor_load_config(file) ==
    IF file.status \in Unreadable
    THEN [exits |-> TRUE, config |-> EmptyConfig]
    ELSE [exits |-> FALSE, config |-> file.content]

\* AlertSystem._load_config: json.load's result, or the default configuration
AlertSystem_load_config(file) ==
    IF file.status \in Unreadable THEN _get_default_config ELSE file.content

\* LogMonitor.__init__ : self.config = self._load_config(config_path) comes
\* first, AlertSystem(config_path) after it
Construct ==
    /\ pc = "new"
    /\ IF LogMonitor_load_config(config_file).exits
       THEN /\ pc' = "exited"
            /\ UNCHANGED config
       ELSE /\ config' = AlertSystem_load_config(config_file)
            /\ pc' = "idle"
    /\ UNCHANGED <<log_file, file_exists, last_position, threat_counts, suspicious_ips,
                   alert_count, slack_on, enable_ml, is_trained, db, entries, reads,
                   written, last, config_file, pending, collected, summaries,
                   interrupted, api>>

\* check_new_logs up to the for loop (lines 69-87); read_fails: getsize or
\* open raises
Poll ==
    /\ pc = "idle"
    /\ \E read_fails \in BOOLEAN :
       IF ~file_exists
       THEN /\ ~read_fails
            /\ last' = FileNotFound(last_position)
            /\ UNCHANGED <<last_position, reads, pending, collected, pc>>
       ELSE IF read_fails
       THEN /\ last' = ReadError(last_position)
            /\ UNCHANGED <<last_position, reads, pending, collected, pc>>
       ELSE IF Len(log_file) <= last_position
       THEN /\ last' = NotGrown(Len(log_file), last_position)
            /\ UNCHANGED <<last_position, reads, pending, collected, pc>>
       ELSE LET text == SubSeq(log_file, last_position + 1, Len(log_file))
            IN  /\ last_position' = tell(last_position, text)
                /\ reads' = Append(reads, <<last_position, last_position + Len(text)>>)
                /\ pending' = readlines(text)
                /\ collected' = <<>>
                /\ pc' = "lines"
                /\ last' = [NoCall EXCEPT !.called = TRUE, !.found = TRUE,
                                          !.file_size = Len(log_file),
                                          !.start = last_position,
                                          !.new_lines = Len(readlines(text))]
    /\ UNCHANGED <<log_file, file_exists, threat_counts, suspicious_ips, alert_count,
                   config, slack_on, enable_ml, is_trained, db, entries, written,
                   config_file, summaries, interrupted, api>>

\* one iteration of the for loop (lines 91-113); fails: add_security_event
\* raises, and the handler at 131 ends the pass
AnalyzeLine ==
    /\ pc = "lines"
    /\ pending # <<>>
    /\ \E fails \in BOOLEAN :
       \E st \in {ProcessLines(<<Head(pending)>>,
                               [threat_counts |-> threat_counts,
                                suspicious_ips |-> suspicious_ips,
                                entries |-> entries, db |-> db,
                                suspicious_entries |-> collected, calls |-> 0,
                                raised |-> FALSE],
                               enable_ml, is_trained, IF fails THEN 1 ELSE 0)} :
          /\ threat_counts' = st.threat_counts
          /\ suspicious_ips' = st.suspicious_ips
          /\ entries' = st.entries
          /\ db' = st.db
          /\ IF st.raised
             THEN /\ pc' = "idle"
                  /\ pending' = <<>>
                  /\ collected' = <<>>
                  /\ last' = [last EXCEPT !.ret = "false", !.error = TRUE,
                                          !.log = "Error checking logs"]
             ELSE /\ pc' = "lines"
                  /\ pending' = Tail(pending)
                  /\ collected' = st.suspicious_entries
                  /\ UNCHANGED last
    /\ UNCHANGED <<log_file, file_exists, last_position, alert_count, config, slack_on,
                   enable_ml, is_trained, reads, written, config_file, summaries,
                   interrupted, api>>

\* a pass that evaluates the alert after each line of the batch
DispatchStep_early ==
    /\ pc = "lines"
    /\ \E stats_fail \in BOOLEAN, smtp \in PassSmtpOutcomes, http \in PassHttpOutcomes :
       \E d \in {Dispatch([threat_counts |-> threat_counts,
                           suspicious_ips |-> suspicious_ips,
                           suspicious_entries |-> collected, raised |-> FALSE],
                          config, alert_count, slack_on, stats_fail, smtp, http)} :
          /\ alert_count' = d.alert_count
          /\ last' = [last EXCEPT !.suspicious_entries = Len(collected),
                                  !.total_threats = d.total_threats,
                                  !.ret = d.ret, !.error = d.error,
                                  !.log = IF d.error THEN "Error checking logs" ELSE "",
                                  !.email = d.email, !.slack = d.slack]
    /\ pc' = IF pending = <<>> THEN "idle" ELSE "lines"
    /\ collected' = IF pending = <<>> THEN <<>> ELSE collected
    /\ UNCHANGED <<log_file, file_exists, last_position, threat_counts, suspicious_ips,
                   config, slack_on, enable_ml, is_trained, db, entries, reads, written,
                   config_file, pending, summaries, interrupted, api>>

\* the rest of check_new_logs (lines 115-133), then time.sleep
DispatchStep ==
    /\ pc = "lines"
    /\ pending = <<>>
    /\ \E stats_fail \in BOOLEAN, smtp \in PassSmtpOutcomes, http \in PassHttpOutcomes :
       \E d \in {Dispatch([threat_counts |-> threat_counts,
                           suspicious_ips |-> suspicious_ips,
                           suspicious_entries |-> collected, raised |-> FALSE],
                          config, alert_count, slack_on, stats_fail, smtp, http)} :
          /\ alert_count' = d.alert_count
          /\ last' = [last EXCEPT !.suspicious_entries = Len(collected),
                                  !.total_threats = d.total_threats,
                                  !.ret = d.ret, !.error = d.error,
                                  !.log = IF d.error THEN "Error checking logs" ELSE "",
                                  !.email = d.email, !.slack = d.slack]
    /\ pc' = "idle"
    /\ collected' = <<>>
    /\ UNCHANGED <<log_file, file_exists, last_position, threat_counts, suspicious_ips,
                   config, slack_on, enable_ml, is_trained, db, entries, reads, written,
                   config_file, pending, summaries, interrupted, api>>

\* KeyboardInterrupt: raised in the main thread wherever it is, inside
\* check_new_logs (whose handler is "except Exception", which does not catch
\* it) or in time.sleep; caught at line 159, which prints the summary
Interrupt ==
    /\ pc \in {"idle", "lines"}
    /\ interrupted' = pc
    /\ pc' = "stopped"
    /\ summaries' = summaries + 1
    /\ UNCHANGED <<log_file, file_exists, last_position, threat_counts, suspicious_ips,
                   alert_count, config, slack_on, enable_ml, is_trained, db, entries,
                   reads, written, last, config_file, pending, collected, api>>

InitRun ==
    /\ log_file = <<>>
    /\ file_exists = FALSE
    /\ last_position = 0
    /\ threat_counts = <<>>
    /\ suspicious_ips = <<>>
    /\ alert_count = 0
    /\ config = EmptyConfig
    /\ slack_on = TRUE
    /\ enable_ml \in BOOLEAN
    /\ is_trained \in BOOLEAN
    /\ db = <<>>
    /\ entries = <<>>
    /\ reads = <<>>
    /\ written = 0
    /\ last = NoCall
    /\ pc = "new"
    /\ config_file \in { [status |-> s, content |-> EmptyConfig] : s \in Unreadable }
                        \cup { [status |-> "valid", content |-> c] : c \in MonitorConfigs }
    /\ pending = <<>>
    /\ collected = <<>>
    /\ summaries = 0
    /\ interrupted = "no"
    /\ snapshot = NoSnapshot
    /\ mark = 0
    /\ classified = <<>>
    /\ filtered = NoFilter
    /\ instances = FreshInstances
    /\ calls = <<>>

NextRun == Construct \/ Poll \/ AnalyzeLine \/ DispatchStep \/ Interrupt \/ AppendLog

SpecRun == InitRun /\ [][NextRun]_vars

\* ------------------------------------- LogParser called directly
\* cli.py, demo.py, report_generator.py and the unit tests build a
\* LogParser of their own and call its methods in any order.
MaxRecords == 3

\* the lines handed to parse_log_line: of each grammar, of none (no header,
\* the header alone, the header not at the start, the empty string), with
\* and without catalog matches, with a newline inside
ApiLines ==
    { <<"FL_A">>, <<"SIM", "FP_C">>, <<"SCAN">>, <<"SYS", "FL_A">>,
      <<"ISO", "SQL", NL, "OK">>, <<"SYS">>, <<>>, <<"OK", "SIM", "OK">> }

\* entry = parser.analyze_log_entry(parser.parse_log_line(line)); the caller
\* keeps the entry in its list
AnalyzeEntry ==
    /\ Len(entries) < MaxRecords
    /\ \E line \in ApiLines :
       \E a \in {analyze_log_entry([threat_counts |-> threat_counts,
                                    suspicious_ips |-> suspicious_ips],
                                   parse_log_line(line))} :
          /\ threat_counts' = a.threat_counts
          /\ suspicious_ips' = a.suspicious_ips
          /\ entries' = Append(entries, a.log_entry)
    /\ UNCHANGED <<log_file, file_exists, last_position, alert_count, config, slack_on,
                   enable_ml, is_trained, db, reads, written, last, run, api>>

\* stats = parser.get_statistics()
GetStatistics ==
    /\ snapshot' = [taken |-> TRUE,
                    stats |-> get_statistics([threat_counts |-> threat_counts,
                                              suspicious_ips |-> suspicious_ips])]
    /\ UNCHANGED <<log_file, file_exists, last_position, threat_counts, suspicious_ips,
                   alert_count, config, slack_on, enable_ml, is_trained, db, entries,
                   reads, written, last, run, mark, classified, filtered, instances,
                   calls>>

\* parser.reset_statistics()
ResetStatistics ==
    /\ \E r \in {reset_statistics([threat_counts |-> threat_counts,
                                    suspicious_ips |-> suspicious_ips])} :
          /\ threat_counts' = r.threat_counts
          /\ suspicious_ips' = r.suspicious_ips
    /\ mark' = Len(entries)
    /\ UNCHANGED <<log_file, file_exists, last_position, alert_count, config, slack_on,
                   enable_ml, is_trained, db, entries, reads, written, last, run,
                   snapshot, classified, filtered, instances,
                   calls>>

\* suspicious = parser.get_suspicious_entries(entries)
GetSuspiciousEntries ==
    /\ filtered' = [called |-> TRUE, input |-> entries,
                    result |-> get_suspicious_entries(entries)]
    /\ UNCHANGED <<log_file, file_exists, last_position, threat_counts, suspicious_ips,
                   alert_count, config, slack_on, enable_ml, is_trained, db, entries,
                   reads, written, last, run, snapshot, mark, classified, instances,
                   calls>>

\* parser = LogParser()
InitParser ==
    /\ log_file = <<>>
    /\ file_exists = FALSE
    /\ last_position = 0
    /\ threat_counts = <<>>
    /\ suspicious_ips = <<>>
    /\ alert_count = 0
    /\ config = EmptyConfig
    /\ slack_on = FALSE
    /\ enable_ml = FALSE
    /\ is_trained = FALSE
    /\ db = <<>>
    /\ entries = <<>>
    /\ reads = <<>>
    /\ written = 0
    /\ last = NoCall
    /\ pc = "idle"
    /\ config_file = [status |-> "valid", content |-> config]
    /\ pending = <<>>
    /\ collected = <<>>
    /\ summaries = 0
    /\ interrupted = "no"
    /\ snapshot = NoSnapshot
    /\ mark = 0
    /\ classified = <<>>
    /\ filtered = NoFilter
    /\ instances = FreshInstances
    /\ calls = <<>>

NextParser == AnalyzeEntry \/ GetStatistics \/ ResetStatistics \/ GetSuspiciousEntries

SpecParser == InitParser /\ [][NextParser]_vars

\* ------------------------------------------- several LogParser instances
\* p.analyze_log_entry(p.parse_log_line(line)) on one of the parsers
AnalyzeOn ==
    /\ Len(calls) < MaxRecords
    /\ \E p \in ParserNames, line \in ApiLines :
       \E a \in {analyze_log_entry(instances[self_attributes(p)], parse_log_line(line))} :
          /\ instances' = [instances EXCEPT ![self_attributes(p)] =
                              [threat_counts |-> a.threat_counts,
                               suspicious_ips |-> a.suspicious_ips]]
          /\ calls' = Append(calls, [parser |-> p, op |-> "analyze", line |-> line])
    /\ UNCHANGED <<log_file, file_exists, last_position, threat_counts, suspicious_ips,
                   alert_count, config, slack_on, enable_ml, is_trained, db, entries,
                   reads, written, last, run, snapshot, mark, classified, filtered>>

\* p.reset_statistics() on one of the parsers
ResetOn ==
    /\ Len(calls) < MaxRecords
    /\ \E p \in ParserNames :
          /\ instances' = [instances EXCEPT ![self_attributes(p)] = reset_statistics(@)]
          /\ calls' = Append(calls, [parser |-> p, op |-> "reset", line |-> <<>>])
    /\ UNCHANGED <<log_file, file_exists, last_position, threat_counts, suspicious_ips,
                   alert_count, config, slack_on, enable_ml, is_trained, db, entries,
                   reads, written, last, run, snapshot, mark, classified, filtered>>

NextInstances == AnalyzeOn \/ ResetOn

SpecInstances == InitParser /\ [][NextInstances]_vars

\* -------------------------------- SecurityPatterns called directly
MaxChecks == 2

CheckLines == { <<"FL_A">>, <<"SIM", "FP_C">>, <<"ISO", "SQL", NL, "OK">>,
                <<"FL_A", "SQL">> }

\* a classifier that answers from the counters
CheckPatterns_counting ==
    /\ Len(classified) < MaxChecks
    /\ \E line \in CheckLines :
          classified' = Append(classified,
                               [line |-> line,
                                matches |-> IF threat_counts = <<>>
                                            THEN check_patterns(line) ELSE <<>>])
    /\ UNCHANGED <<log_file, file_exists, last_position, threat_counts, suspicious_ips,
                   alert_count, config, slack_on, enable_ml, is_trained, db, entries,
                   reads, written, last, run, snapshot, mark, filtered, instances,
                   calls>>

\* matches = SecurityPatterns.check_patterns(line)
CheckPatterns ==
    /\ Len(classified) < MaxChecks
    /\ \E line \in CheckLines :
          classified' = Append(classified,
                               [line |-> line, matches |-> check_patterns(line)])
    /\ UNCHANGED <<log_file, file_exists, last_position, threat_counts, suspicious_ips,
                   alert_count, config, slack_on, enable_ml, is_trained, db, entries,
                   reads, written, last, run, snapshot, mark, filtered, instances,
                   calls>>

NextPatterns == CheckPatterns \/ AnalyzeEntry

SpecPatterns == InitParser /\ [][NextPatterns]_vars

\* ==================================================================== claims
Addresses == {"10.0.0.1", "10.0.0.2"}

\* the threshold send_threat_alert is configured with
ThresholdOf(cfg) ==
    IF cfg.has_monitoring /\ cfg.has_threshold THEN cfg.alert_threshold ELSE DefaultThreshold

RECURSIVE SumThreats(_)
SumThreats(es) == IF es = <<>> THEN 0 ELSE Len(Head(es).threats) + SumThreats(Tail(es))

\* occurrences of ip in a sequence of addresses
RECURSIVE Occurrences(_, _)
Occurrences(ip, ips) ==
    IF ips = <<>> THEN 0
    ELSE (IF Head(ips) = ip THEN 1 ELSE 0) + Occurrences(ip, Tail(ips))

\* the entry had a catalog match when analyze_log_entry extracted its
\* addresses: one of its threats was recorded from the pattern catalog (the
\* detector's threat is appended afterwards)
CatalogSuspicious(e) ==
    \E t \in 1..Len(e.threats) : e.threats[t][1] # "ML Anomaly Detection"

RECURSIVE OccurrencesInSuspicious(_, _)
OccurrencesInSuspicious(ip, es) ==
    IF es = <<>> THEN 0
    ELSE (IF CatalogSuspicious(Head(es))
          THEN Occurrences(ip, findall_ips(Head(es).raw_line)) ELSE 0)
         + OccurrencesInSuspicious(ip, Tail(es))

\* C1: rotation recovery.  A poll that finds the file smaller than the tracked
\* offset re-reads it from byte 0: it returns the lines of the new content
\* (not an empty result) and leaves the offset at the end of the new content.
C1_RotationRecovery ==
    (last.called /\ last.found /\ 0 < last.file_size /\ last.file_size < last.start)
        => (last.new_lines > 0 /\ last_position = last.file_size)

\* C2: tailer offset monotonicity.  Over any sequence of polls the tracked
\* offset never decreases, and the byte ranges the polls read never overlap:
\* each read starts at or after the end of every earlier read.
C2_OffsetMonotonicity ==
    /\ [][last_position' >= last_position]_vars
    /\ [](\A i, j \in 1..Len(reads) : i < j => reads[i][2] <= reads[j][1])

\* C2 witness: two polls have each read data and the offset is at the end of
\* the file.
C2_Witness ==
    /\ Len(reads) >= 2
    /\ reads[1][1] < reads[1][2]
    /\ reads[2][1] < reads[2][2]
    /\ last_position = Len(log_file)

\* C3: aggregator conservation.  total_threats of get_statistics equals the sum
\* of len(entry.threats) over all entries processed, entries extended by the
\* anomaly scorer included.
C3_Conservation ==
    get_statistics([threat_counts |-> threat_counts,
                    suspicious_ips |-> suspicious_ips]).total_threats = SumThreats(entries)

\* C4: threshold gating.  send_threat_alert produces an alert if and only if
\* the batch is non-empty and the cumulative total is at least the threshold.
C4_ThresholdGating ==
    last.email.called =>
        (last.email.fired <=>
            (last.suspicious_entries > 0 /\ last.total_threats >= ThresholdOf(config)))

\* C5: no channel is sent an alert (no SMTP session, no webhook POST) while
\* the cumulative total is below the threshold.
C5_NoChannelBelowThreshold ==
    (last.called /\ (last.email.session \/ last.slack.posted))
        => last.total_threats >= ThresholdOf(config)

\* C6: channel isolation.  In a pass that dispatches, the webhook channel is
\* attempted whatever the outcome of the email channel.
C6_ChannelIsolation ==
    (last.called /\ last.email.called) => last.slack.called

\* C7: the dispatcher never throws: send_threat_alert and
\* send_threat_alert_slack return a boolean for every batch, snapshot and
\* configuration.
C7_DispatcherNeverThrows ==
    /\ last.email.called => last.email.ret \in {"true", "false"}
    /\ last.slack.called => last.slack.ret \in {"true", "false"}

\* C8: per-source counting.  suspicious_ips[a] equals the number of entries,
\* suspicious when recorded, whose line contains a: one per entry, however
\* many matches the entry has and however often a occurs in the line.
C8_PerSourceCounting ==
    \A ip \in Addresses :
        DictGet(suspicious_ips, ip) =
            Cardinality({ i \in 1..Len(entries) :
                            /\ CatalogSuspicious(entries[i])
                            /\ Occurrences(ip, findall_ips(entries[i].raw_line)) > 0 })

C10_SeverityAsStated ==
    last.slack.posted =>
        last.slack.severity =
            (IF last.total_threats < 10 THEN "warning"
             ELSE IF last.total_threats <= 20 THEN "error"
             ELSE "critical")

\* C10 as amended: the severity of a posted alert depends on total_threats
\* alone: warning up to and including 10, error from 11 to 20, critical above
\* 20.
C10_Severity ==
    last.slack.posted =>
        /\ last.total_threats <= 10 => last.slack.severity = "warning"
        /\ (11 <= last.total_threats /\ last.total_threats <= 20)
                => last.slack.severity = "error"
        /\ last.total_threats > 20 => last.slack.severity = "critical"

\* C10 witness: an alert posted with a total of exactly 10.
C10_Witness ==
    last.slack.posted /\ last.total_threats = 10 /\ last.slack.severity = "warning"

\* the pass that has just ended read new bytes and built at least one entry
\* that is suspicious
NewlySuspicious(before, after) ==
    \E i \in (Len(before) + 1)..Len(after) : is_suspicious(after[i])

\* C11: no debounce.  Once the cumulative total has reached the threshold,
\* every later monitoring pass whose new lines hold at least one suspicious
\* entry fires an alert again, and a pass with no new suspicious entry fires
\* none on any channel.
C11_NoDebounce ==
    /\ [][(/\ reads' # reads
           /\ DictSum(threat_counts) >= ThresholdOf(config)
           /\ NewlySuspicious(entries, entries'))
              => last'.email.fired]_vars
    /\ [][(last' # last /\ ~NewlySuspicious(entries, entries'))
              => (~last'.email.fired /\ ~last'.slack.posted)]_vars

\* C12: cancellation.  An interrupt received while a pass is in progress does
\* not abort the pass: when the loop has ended, the interrupt was taken
\* between two passes, no line read by the last pass was left unprocessed,
\* and the summary has been printed exactly once.
C12_NoMidPassAbort ==
    pc = "stopped" => (interrupted = "idle" /\ pending = <<>> /\ summaries = 1)

\* C13: missing log file.  A poll that finds no file at the path returns
\* False without raising, prints a warning and leaves the offset, the
\* statistics and the alert count as they were; a later poll that finds the
\* file with data past the offset reads it from the offset to its end.
C13_MissingFile ==
    /\ [][(~file_exists /\ ~file_exists')
              => (/\ last'.called /\ ~last'.found
                  /\ last'.ret = "false" /\ ~last'.error
                  /\ last'.log # ""
                  /\ ~last'.email.called /\ ~last'.slack.called
                  /\ UNCHANGED <<last_position, threat_counts, suspicious_ips,
                                 alert_count, db, entries, reads>>)]_vars
    /\ [][(last' # last /\ file_exists /\ Len(log_file) > last_position)
              => (/\ last'.found
                  /\ reads' = Append(reads, <<last_position, Len(log_file)>>)
                  /\ last_position' = Len(log_file))]_vars

\* C13 witness: the file was read, then went away, and the latest poll found
\* it missing: offset and counters are not zero.
C13_Witness ==
    /\ last.called /\ ~last.found /\ ~file_exists
    /\ last.log = "Warning: Log file not found"
    /\ last_position > 0
    /\ DictSum(threat_counts) > 0

\* C14: no new data.  A poll that finds the file no larger than the tracked
\* offset (the file that has not shrunk is as long as the offset) returns
\* False, leaves the offset, the statistics and the alert count as they were
\* and calls no channel.
C14_NoNewData ==
    [][(last' # last /\ file_exists /\ Len(log_file) <= last_position)
          => (/\ last'.called /\ last'.found
              /\ last'.ret = "false"
              /\ last'.new_lines = 0
              /\ ~last'.email.called /\ ~last'.slack.called
              /\ UNCHANGED <<last_position, threat_counts, suspicious_ips,
                             alert_count, db, entries, reads>>)]_vars

\* C14 witness: the latest poll found the file exactly as long as the offset,
\* after an earlier poll had read it and counted threats.
C14_Witness ==
    /\ last.called /\ last.found
    /\ last.file_size = last.start
    /\ last.start > 0
    /\ last.file_size = Len(log_file)
    /\ DictSum(threat_counts) > 0
    /\ last.ret = "false"

\* C15: configuration fallback.  Started with a configuration file that is
\* missing or is not valid JSON, the process does not terminate and runs with
\* the defaults: email alerts disabled, alert threshold 5.
C15_ConfigFallback ==
    (config_file.status \in Unreadable /\ pc # "new")
        => (/\ pc # "exited"
            /\ config = _get_default_config
            /\ ~config.enable_email_alerts
            /\ ThresholdOf(config) = DefaultThreshold)

\* C16: recording an entry that no catalog rule matches leaves every
\* statistic as it was: the total, every per-category counter and every
\* per-address counter, also when the line holds IPv4-shaped substrings.
C16_NonSuspiciousFrame ==
    [][(/\ Len(entries') = Len(entries) + 1
        /\ check_patterns(entries'[Len(entries')].raw_line) = <<>>)
          => (/\ UNCHANGED <<threat_counts, suspicious_ips>>
              /\ get_statistics([threat_counts |-> threat_counts',
                                 suspicious_ips |-> suspicious_ips'])
                 = get_statistics([threat_counts |-> threat_counts,
                                   suspicious_ips |-> suspicious_ips]))]_vars

\* C16 witness: the entry recorded last matches no catalog rule and its line
\* names an address, while earlier entries have left counters that are not
\* zero; the address has no counter.
C16_Witness ==
    /\ entries # <<>>
    /\ LET e == entries[Len(entries)]
       IN  /\ check_patterns(e.raw_line) = <<>>
           /\ findall_ips(e.raw_line) # <<>>
           /\ ~DictHas(suspicious_ips, findall_ips(e.raw_line)[1])
    /\ DictSum(threat_counts) > 0
    /\ suspicious_ips # <<>>

\* the threat categories an entry's threats can carry: those of the catalog
\* and the scorer's
ThreatTypes ==
    { get_all_patterns[i].threat_type : i \in 1..Len(get_all_patterns) }
        \cup {"ML Anomaly Detection"}

\* the threats of category c on one entry, and over a sequence of entries
ThreatsOn(c, e) == Cardinality({ t \in 1..Len(e.threats) : e.threats[t][1] = c })
RECURSIVE ThreatsOfType(_, _)
ThreatsOfType(c, es) ==
    IF es = <<>> THEN 0 ELSE ThreatsOn(c, Head(es)) + ThreatsOfType(c, Tail(es))

\* C17: per-category counting.  For every threat category c the counter
\* threat_counts[c] equals the number of threats of category c on the entries
\* recorded so far.
C17_PerCategoryCounting ==
    \A c \in ThreatTypes : DictGet(threat_counts, c) = ThreatsOfType(c, entries)

\* the phrases of a text in order, newlines left out
RECURSIVE PhrasesOf(_)
PhrasesOf(text) ==
    IF text = <<>> THEN <<>>
    ELSE (IF Head(text) \in Whitespace THEN <<>> ELSE <<Head(text)>>)
         \o PhrasesOf(Tail(text))

\* the text of the recorded entries, in the order they were recorded
RECURSIVE RecordedText(_)
RecordedText(es) ==
    IF es = <<>> THEN <<>> ELSE Head(es).raw_line \o RecordedText(Tail(es))

\* the file up to the tracked offset
ConsumedPrefix ==
    SubSeq(log_file, 1, IF last_position < Len(log_file) THEN last_position
                        ELSE Len(log_file))

\* nothing was ever taken out of the file: it holds every unit written
OnlyGrown == file_exists /\ Len(log_file) = written

\* C18: processing order.  While the file only grows, the entries recorded,
\* and so the statistics of every snapshot, are those of a prefix of the log
\* in file order: the text of the recorded entries is the text of the file
\* up to the tracked offset, with no line left out before a later one, and
\* the snapshot a pass dispatched with is the statistics of these entries.
C18_PrefixOrder ==
    OnlyGrown =>
        /\ RecordedText(entries) = PhrasesOf(ConsumedPrefix)
        /\ last.email.called =>
               last.total_threats =
                   get_statistics([threat_counts |-> threat_counts,
                                   suspicious_ips |-> suspicious_ips]).total_threats

\* C19: no silent drop.  Every evaluation of a non-empty batch that does not
\* deliver the alert on a channel (channel disabled, total below threshold,
\* delivery error) prints a line that says why, on the email channel and on
\* the webhook channel.
C19_NoSilentDrop ==
    last.suspicious_entries > 0 =>
        /\ (last.email.called /\ last.email.ret # "true") => last.email.log # ""
        /\ (last.slack.called /\ last.slack.ret # "true") => last.slack.log # ""

\* the raw lines of a sequence of entries
RawLines(es) == [i \in 1..Len(es) |-> es[i].raw_line]

\* what a monitor that has no scorer makes of the given lines: each line is
\* parsed and analysed, and nothing else touches the entry
RECURSIVE WithoutScorer(_, _)
WithoutScorer(lines, st) ==
    IF lines = <<>> THEN st
    ELSE LET a == analyze_log_entry(st, parse_log_line(Head(lines)))
         IN  WithoutScorer(Tail(lines),
                           [threat_counts |-> a.threat_counts,
                            suspicious_ips |-> a.suspicious_ips,
                            entries |-> Append(st.entries, a.log_entry)])

\* C20: scorer transparency.  With the scorer disabled or untrained the
\* entries recorded carry exactly the threats, and the counters hold exactly
\* the values, that a monitor without a scorer produces from the same lines,
\* and the channels are only called when an entry has a catalog match.
C20_ScorerTransparency ==
    ~(enable_ml /\ is_trained) =>
        \A st \in {WithoutScorer(RawLines(entries),
                                  [threat_counts |-> <<>>, suspicious_ips |-> <<>>,
                                   entries |-> <<>>])} :
            /\ entries = st.entries
            /\ threat_counts = st.threat_counts
            /\ suspicious_ips = st.suspicious_ips
            /\ (last.email.called \/ last.slack.called)
                   => \E i \in 1..Len(entries) : CatalogSuspicious(entries[i])

\* C20 witness: with the scorer out of play, a line that a trained scorer
\* flags was recorded with no threat, and a pass dispatched a batch.
C20_Witness ==
    /\ ~(enable_ml /\ is_trained)
    /\ \E i \in 1..Len(entries) :
          /\ predict(TRUE, entries[i].raw_line).is_anomaly
          /\ entries[i].threats = <<>>
    /\ last.email.called
    /\ last.slack.called

\* no counter of d is lower in e
NotLowered(d, e) == \A i \in 1..Len(d) : DictGet(e, d[i].k) >= d[i].n

\* C21: statistics persist across passes.  During continuous monitoring no
\* step resets the aggregator: the total, every per-category counter and
\* every per-address counter never decrease from one pass to the next.
C21_StatisticsPersist ==
    [][/\ DictSum(threat_counts') >= DictSum(threat_counts)
       /\ NotLowered(threat_counts, threat_counts')
       /\ NotLowered(suspicious_ips, suspicious_ips')]_vars

\* C21 witness: two passes have each read one failed-login line, and the
\* counters of the category and of the address stand at 2.
C21_Witness ==
    /\ Len(reads) = 2
    /\ reads[1] = <<0, 1>> /\ reads[2] = <<1, 2>>
    /\ Len(entries) = 2
    /\ DictGet(threat_counts, "Failed Login Attempts") = 2
    /\ DictGet(suspicious_ips, "10.0.0.1") = 2

\* (with reset_statistics in play) a step that lowers a counter is a reset
OnlyResetLowers ==
    [][~(/\ DictSum(threat_counts') >= DictSum(threat_counts)
         /\ NotLowered(threat_counts, threat_counts')
         /\ NotLowered(suspicious_ips, suspicious_ips'))
          => (mark' = Len(entries) /\ threat_counts' = <<>> /\ suspicious_ips' = <<>>)]_vars

\* every address a line handed to the parser can name
ApiAddresses == {"10.0.0.1"} \cup { ScanAddresses[i] : i \in 1..Len(ScanAddresses) }

\* the entries analysed since reset_statistics was last called
SinceReset == SubSeq(entries, mark + 1, Len(entries))

\* C22: reset.  Right after reset_statistics, whatever was counted before,
\* get_statistics reports a total of 0, no category, no address and an empty
\* ranking; the entries analysed after it are counted from zero.
C22_Reset ==
    /\ Len(entries) = mark =>
           \A st \in {get_statistics([threat_counts |-> threat_counts,
                                      suspicious_ips |-> suspicious_ips])} :
               /\ st.total_threats = 0
               /\ st.threats_by_type.items = <<>>
               /\ st.suspicious_ips.items = <<>>
               /\ st.top_suspicious_ips = <<>>
    /\ DictSum(threat_counts) = SumThreats(SinceReset)
    /\ \A c \in ThreatTypes : DictGet(threat_counts, c) = ThreatsOfType(c, SinceReset)
    /\ \A ip \in ApiAddresses :
           DictGet(suspicious_ips, ip) = OccurrencesInSuspicious(ip, SinceReset)

\* C22 witness: a suspicious entry was counted, the statistics were reset,
\* and a second suspicious entry analysed afterwards is the only one counted.
C22_Witness ==
    /\ mark = 1 /\ Len(entries) = 2
    /\ is_suspicious(entries[1]) /\ is_suspicious(entries[2])
    /\ findall_ips(entries[1].raw_line) # <<>>
    /\ DictSum(threat_counts) = Len(entries[2].threats)

\* the place of address ip in the insertion order of d (first seen first)
FirstSeen(d, ip) == CHOOSE i \in 1..Len(d) : d[i].k = ip

\* C23: top sources ranking.  The ranking of get_statistics lists (address,
\* count) pairs by count descending, addresses of equal count in the order
\* they were first seen; it holds at most 10 pairs, each address once, each
\* with its current counter, and no address left out has a higher count
\* than one listed.
C23_TopSources ==
    \A top \in {get_statistics([threat_counts |-> threat_counts,
                                suspicious_ips |-> suspicious_ips]).top_suspicious_ips} :
        /\ Len(top) <= 10
        /\ Len(top) = (IF Len(suspicious_ips) < 10 THEN Len(suspicious_ips) ELSE 10)
        /\ \A i \in 1..Len(top) :
               /\ DictHas(suspicious_ips, top[i].k)
               /\ top[i].n = DictGet(suspicious_ips, top[i].k)
        /\ \A i, j \in 1..Len(top) :
               i < j => /\ top[i].k # top[j].k
                        /\ top[i].n >= top[j].n
                        /\ top[i].n = top[j].n =>
                               FirstSeen(suspicious_ips, top[i].k)
                                   < FirstSeen(suspicious_ips, top[j].k)
        /\ \A i \in 1..Len(suspicious_ips) :
               (\A j \in 1..Len(top) : top[j].k # suspicious_ips[i].k)
                   => /\ Len(top) = 10
                      /\ suspicious_ips[i].n <= top[10].n

\* C23 witness: twelve addresses are counted; the one seen last has the
\* highest count and leads the ranking, the others tie, and the two of them
\* seen last are left out.
C23_Witness ==
    /\ Len(suspicious_ips) = 12
    /\ suspicious_ips[12].k = "10.0.0.1"
    /\ suspicious_ips[12].n = 2
    /\ \A top \in {get_statistics([threat_counts |-> threat_counts,
                                   suspicious_ips |-> suspicious_ips]).top_suspicious_ips} :
           /\ Len(top) = 10
           /\ top[1].k = "10.0.0.1"
           /\ top[2].k = suspicious_ips[1].k
           /\ top[10].k = suspicious_ips[9].k

\* the line is of one of the three grammars: it starts with a header that is
\* followed by message text on the same line
OfSomeGrammar(line) ==
    /\ Len(line) >= 2
    /\ line[1] \in {"SYS", "ISO", "SIM"}
    /\ line[2] \notin Whitespace

Levels == {"sshd", "ERROR", "WARNING", "UNKNOWN"}

C25_SuspiciousIffThreats ==
    \A i \in 1..Len(entries) :
        is_suspicious(entries[i]) <=> entries[i].threats # <<>>

\* C25 witness: the passes have recorded an entry with two catalog threats
\* and an entry whose only threat is the scorer's, and the latest pass had a
\* batch.
C25_Witness ==
    /\ \E i \in 1..Len(entries) :
          /\ Len(entries[i].threats) = 2
          /\ CatalogSuspicious(entries[i])
    /\ \E i \in 1..Len(entries) :
          /\ entries[i].threats # <<>>
          /\ ~CatalogSuspicious(entries[i])
    /\ last.suspicious_entries > 0

RuleIndex ==
    { <<c, r>> \in (1..Len(get_all_patterns)) \X (1..5) :
          r <= Len(get_all_patterns[c].patterns) }
MatchOf(cr) ==
    <<get_all_patterns[cr[1]].threat_type, get_all_patterns[cr[1]].patterns[cr[2]]>>

\* the rule matches somewhere in the line
MatchesLine(cr, line) ==
    \E u \in 1..Len(line) : get_all_patterns[cr[1]].patterns[cr[2]] \in TokenRules(line[u])

\* pair a comes before pair b in the catalog
Before(a, b) == a[1] < b[1] \/ (a[1] = b[1] /\ a[2] < b[2])

\* C27: multi-label classification.  The result of check_patterns holds one
\* match (category, rule) for each catalog rule whose pattern matches the
\* line, and nothing else, in catalog order: all rules of all categories are
\* tried, a category may occur several times.
C27_MultiLabel ==
    \A k \in 1..Len(classified) :
        LET line == classified[k].line
            matches == classified[k].matches
            hits == { cr \in RuleIndex : MatchesLine(cr, line) }
        IN  /\ Len(matches) = Cardinality(hits)
            /\ \A cr \in hits : \E i \in 1..Len(matches) : matches[i] = MatchOf(cr)
            /\ \A i, j \in 1..Len(matches) :
                   i < j => \E a, b \in hits :
                               /\ matches[i] = MatchOf(a)
                               /\ matches[j] = MatchOf(b)
                               /\ Before(a, b)

\* C27 witness: a line that matches one rule of the first category and two
\* rules of the second was classified: three matches, the category of the
\* second and third the same.
C27_Witness ==
    \E k \in 1..Len(classified) :
        /\ classified[k].line = <<"FL_A", "SQL">>
        /\ Len(classified[k].matches) = 3
        /\ classified[k].matches[1][1] = "Failed Login Attempts"
        /\ classified[k].matches[2][1] = "SQL Injection"
        /\ classified[k].matches[3][1] = "SQL Injection"

\* the positions of the suspicious entries of es, and the k-th of them
SuspiciousAt(es) == { i \in 1..Len(es) : is_suspicious(es[i]) }
Kth(idx, k) == CHOOSE i \in idx : Cardinality({ j \in idx : j < i }) = k - 1

\* the result of the latest get_suspicious_entries call is its input with
\* the entries that are not suspicious taken out, the others in input order
FilterExact ==
    filtered.called =>
        /\ Len(filtered.result) = Cardinality(SuspiciousAt(filtered.input))
        /\ \A k \in 1..Len(filtered.result) :
               filtered.result[k] = filtered.input[Kth(SuspiciousAt(filtered.input), k)]

\* a line that reports a failed password, as "Failed password for root from
\* 10.0.0.1" and "Failed password from 10.0.0.1" do
FailedPasswordLine(line) == \E u \in 1..Len(line) : line[u] \in {"FL_A", "FP_C"}

\* C28: suspicious filter.  get_suspicious_entries returns exactly the
\* suspicious entries of its input, in input order; for an input of one
\* entry that matches nothing and one entry with a failed-password line it
\* returns exactly the second.
C28_SuspiciousFilter ==
    /\ FilterExact
    /\ (/\ filtered.called
        /\ Len(filtered.input) = 2
        /\ ~FailedPasswordLine(filtered.input[1].raw_line)
        /\ check_patterns(filtered.input[1].raw_line) = <<>>
        /\ FailedPasswordLine(filtered.input[2].raw_line))
           => filtered.result = <<filtered.input[2]>>

\* the line has nothing but whitespace in it
Blank(line) == \A u \in 1..Len(line) : line[u] \in Whitespace

\* the lines of a text that are not blank
RECURSIVE CountNotBlank(_)
CountNotBlank(lines) ==
    IF lines = <<>> THEN 0
    ELSE (IF Blank(Head(lines)) THEN 0 ELSE 1) + CountNotBlank(Tail(lines))

\* the text a pass reads: from the offset to the end of the file
Unread == SubSeq(log_file, last_position + 1, Len(log_file))

\* C29: blank-line filtering.  A line that is empty once the whitespace
\* around it is trimmed is never handed to the parser, never stored and
\* never counted, by a monitoring pass and by parse_log_file alike; the
\* pass still moves the offset past it.  (parse_log_file depends on the file
\* alone: it is evaluated on every content the file takes before the first
\* poll, which are all the contents it can take.)
C29_BlankLines ==
    /\ [](\A i \in 1..Len(entries) :
             /\ ~Blank(entries[i].raw_line)
             /\ Head(entries[i].raw_line) \notin Whitespace
             /\ entries[i].raw_line[Len(entries[i].raw_line)] \notin Whitespace)
    /\ [][reads' # reads =>
             /\ last_position' = Len(log_file)
             /\ Len(entries') <= Len(entries) + CountNotBlank(readlines(Unread))
             /\ Len(db') <= Len(db) + CountNotBlank(readlines(Unread))
             /\ Blank(Unread) => UNCHANGED <<entries, db, threat_counts, suspicious_ips>>]_vars
    /\ [](~last.called =>
           \A r \in {parse_log_file([threat_counts |-> <<>>, suspicious_ips |-> <<>>],
                                     file_exists, log_file)} :
             /\ Len(r.entries) = CountNotBlank(readlines(log_file))
             /\ \A i \in 1..Len(r.entries) : ~Blank(r.entries[i].raw_line)
             /\ RecordedText(r.entries) = PhrasesOf(log_file)
             /\ DictSum(r.threat_counts) = SumThreats(r.entries)
             /\ \A ip \in Addresses :
                    DictGet(r.suspicious_ips, ip) = OccurrencesInSuspicious(ip, r.entries))

\* C29 witness: after a pass that read and counted a failed-login line, the
\* latest pass read one line that is blank: no entry, no row and no count
\* was added, and the offset is past it.
C29_Witness ==
    /\ log_file = <<"FL_A", NL, NL>>
    /\ reads = << <<0, 2>>, <<2, 3>> >>
    /\ last_position = 3
    /\ last.new_lines = 1 /\ last.ret = "true"
    /\ Len(entries) = 1 /\ Len(db) = 1
    /\ DictSum(threat_counts) = 1

\* what a holder of the dictionary object reads in it now: a parser
\* attribute is read through the parser, a new dictionary holds its own items
Held(obj) ==
    IF obj.id = "threat_counts" THEN threat_counts
    ELSE IF obj.id = "suspicious_ips" THEN suspicious_ips
    ELSE obj.items

\* C30: snapshot isolation.  The value get_statistics returned is a copy:
\* whatever is analysed or reset after the call, the holder still reads in
\* it the per-category and per-address counters of the time of the call,
\* and the total that goes with them.
C30_SnapshotIsolation ==
    snapshot.taken =>
        /\ Held(snapshot.stats.threats_by_type) = snapshot.stats.threats_by_type.items
        /\ Held(snapshot.stats.suspicious_ips) = snapshot.stats.suspicious_ips.items
        /\ snapshot.stats.total_threats = DictSum(Held(snapshot.stats.threats_by_type))

\* C30 witness: a snapshot was taken after the first of two suspicious
\* entries; the second was analysed, the statistics were reset and a third
\* entry was analysed, and the snapshot still shows the one threat.
C30_Witness ==
    /\ snapshot.taken
    /\ snapshot.stats.total_threats = 1
    /\ Len(snapshot.stats.suspicious_ips.items) = 1
    /\ Len(entries) = 3 /\ mark = 2
    /\ \A i \in 1..3 : is_suspicious(entries[i])
    /\ threat_counts # snapshot.stats.threats_by_type.items
    /\ suspicious_ips # snapshot.stats.suspicious_ips.items

\* the catalog matches of a sequence of lines
RECURSIVE MatchesIn(_)
MatchesIn(lines) ==
    IF lines = <<>> THEN 0
    ELSE Len(check_patterns(Head(lines))) + MatchesIn(Tail(lines))

\* C31: exactly-once processing.  Every line that is not blank among the
\* lines a pass consumes is parsed, classified and counted in that pass (and,
\* the offset being past it, in no other), also when the event store, the
\* statistics store or a channel fails during the pass.
C31_ExactlyOnce ==
    [][reads' # reads =>
          /\ last_position' = Len(log_file)
          /\ Len(entries') = Len(entries) + CountNotBlank(readlines(Unread))
          /\ DictSum(threat_counts') =
                 DictSum(threat_counts) + MatchesIn(readlines(Unread))]_vars

\* every pass in which the event store did not fail processes all its lines
ExactlyOnceWithoutStoreFailure ==
    [][(reads' # reads /\ Len(db') - Len(db) = Len(entries') - Len(entries)) =>
          /\ last_position' = Len(log_file)
          /\ Len(entries') = Len(entries) + CountNotBlank(readlines(Unread))
          /\ DictSum(threat_counts') =
                 DictSum(threat_counts) + MatchesIn(readlines(Unread))]_vars

\* the entries a pass appended that came out suspicious
Detected(before, after) ==
    {i \in (Len(before) + 1)..Len(after) : is_suspicious(after[i])}

\* C32: every suspicious entry a pass records is in the batch of the alert
\* evaluation of that pass: the dispatcher is called with exactly the
\* suspicious entries the pass detected, also when the event store fails on a
\* later line of the batch.
C32_OfferedToDispatcher ==
    [][(reads' # reads /\ Detected(entries, entries') # {}) =>
          /\ last'.email.called
          /\ last'.suspicious_entries = Cardinality(Detected(entries, entries'))]_vars

\* in a pass where neither store raises, the dispatcher gets the whole batch
OfferedWithoutStoreFailure ==
    [][(/\ reads' # reads
        /\ Detected(entries, entries') # {}
        /\ Len(db') - Len(db) = Len(entries') - Len(entries)
        /\ ~(last'.error /\ ~last'.email.called)) =>
          /\ last'.email.called
          /\ last'.suspicious_entries = Cardinality(Detected(entries, entries'))]_vars

\* C33: contiguous reads.  While the file has only grown, the byte ranges the
\* polls consumed start at 0, each starts where the one before ended, none is
\* empty, and the last ends at the tracked offset; a poll that reads takes
\* everything from the offset to end-of-file, a final line without a newline
\* included, which becomes an entry of its own.
C33_ContiguousReads ==
    /\ [](OnlyGrown =>
            /\ (reads = <<>> => last_position = 0)
            /\ (reads # <<>> =>
                    reads[1][1] = 0 /\ reads[Len(reads)][2] = last_position)
            /\ \A i \in 1..Len(reads) : reads[i][1] < reads[i][2]
            /\ \A i \in 1..(Len(reads) - 1) : reads[i][2] = reads[i + 1][1])
    /\ [][(OnlyGrown /\ reads' # reads) =>
            /\ reads' = Append(reads, <<last_position, Len(log_file)>>)
            /\ last_position' = Len(log_file)
            /\ last'.new_lines = Len(readlines(Unread))
            /\ (last'.ret = "true" /\ log_file[Len(log_file)] \notin Whitespace =>
                    /\ entries' # entries
                    /\ log_file[Len(log_file)] =
                          entries'[Len(entries')].raw_line[
                             Len(entries'[Len(entries')].raw_line)])]_vars

\* two polls, the first of which consumed half a line
C33_Witness ==
    /\ OnlyGrown
    /\ log_file = <<"FL_A", "SQL", NL>>
    /\ reads = << <<0, 1>>, <<1, 3>> >>
    /\ last_position = 3
    /\ Len(entries) = 2
    /\ entries[1].raw_line = <<"FL_A">>
    /\ entries[2].raw_line = <<"SQL">>

\* C34: pass failure containment.  Whatever fails inside a pass (reading the
\* file, the event store, the statistics store, the dispatcher), the pass ends
\* with check_new_logs returning False after printing the error, never by an
\* exception; the loop is then waiting for its next poll, which it can take,
\* and it ends only by an external interrupt.
C34_FailureContainment ==
    /\ [](/\ last.ret \in {"none", "true", "false"}
          /\ (last.error =>
                 /\ last.ret = "false"
                 /\ last.log = "Error checking logs"
                 /\ pc \in {"idle", "stopped"}
                 /\ (pc = "idle" => ENABLED Poll))
          /\ (pc = "stopped" => interrupted # "no" /\ summaries = 1)
          /\ (pc # "stopped" => summaries = 0))
    /\ [][(last'.error /\ last' # last) =>
            /\ pc \in {"idle", "lines"}
            /\ pc' = "idle"
            /\ pending' = <<>>
            /\ UNCHANGED <<interrupted, summaries>>]_vars

\* a pass that failed on the event store, a later pass that ran to its end,
\* and a pass that could not read the file
C34_Witness ==
    /\ pc = "idle"
    /\ last.error
    /\ last.new_lines = 0
    /\ Len(reads) = 2
    /\ Len(db) < Len(entries)

\* the catalog matches of the lines a sequence of entries was built from
RECURSIVE MatchesOf(_)
MatchesOf(es) ==
    IF es = <<>> THEN 0
    ELSE Len(check_patterns(Head(es).raw_line)) + MatchesOf(Tail(es))

\* C35: dispatch once per pass.  While a pass is still in its batch no channel
\* has been called; a channel is called only in the step that ends the pass,
\* when no line of the batch is left, the batch holds a suspicious entry, and
\* the statistics handed over are those of the counters after the whole batch
\* (they cover the matches of every entry of the batch); the Slack channel is
\* called only after the mail channel.
C35_DispatchOncePerPass ==
    /\ [](pc = "lines" => ~last.email.called /\ ~last.slack.called)
    /\ []((last.email.called \/ last.slack.called) =>
             /\ last.suspicious_entries > 0
             /\ last.suspicious_entries <= last.new_lines
             /\ (last.slack.called => last.email.called))
    /\ [][(last' # last /\ (last'.email.called \/ last'.slack.called)) =>
            /\ pc = "lines" /\ pc' = "idle"
            /\ pending = <<>>
            /\ collected # <<>>
            /\ \A i \in 1..Len(collected) : is_suspicious(collected[i])
            /\ last'.suspicious_entries = Len(collected)
            /\ UNCHANGED <<threat_counts, suspicious_ips, entries>>
            /\ last'.total_threats = DictSum(threat_counts)
            /\ last'.total_threats >= MatchesOf(collected)]_vars

\* a pass over two lines, both suspicious, that called both channels
C35_Witness ==
    /\ pc = "idle"
    /\ last.email.called /\ last.slack.called
    /\ last.new_lines = 2
    /\ last.suspicious_entries = 2
    /\ last.total_threats = 3
    /\ Len(entries) = 2

\* s is an initial part of t
IsPrefix(s, t) == Len(s) <= Len(t) /\ SubSeq(t, 1, Len(s)) = s

\* C36: threats population.  A step records at most one entry; the entry it
\* records carries the catalog matches of its line once, in catalog order,
\* followed by at most one threat of the detector, and the counters grow by
\* exactly those matches; no step removes an entry or a threat or reorders
\* them: the threats of a recorded entry only grow at the end.
C36_ThreatsPopulation ==
    [][/\ Len(entries) <= Len(entries')
       /\ Len(entries') <= Len(entries) + 1
       /\ \A i \in 1..Len(entries) :
             /\ entries'[i].raw_line = entries[i].raw_line
             /\ IsPrefix(entries[i].threats, entries'[i].threats)
       /\ \A i \in (Len(entries) + 1)..Len(entries') :
             LET threats == entries'[i].threats
                 matches == check_patterns(entries'[i].raw_line)
             IN  /\ IsPrefix(matches, threats)
                 /\ Len(threats) <= Len(matches) + 1
                 /\ (Len(threats) = Len(matches) + 1 =>
                        threats[Len(threats)][1] = "ML Anomaly Detection")
                 /\ DictSum(threat_counts') = DictSum(threat_counts) + Len(matches)]_vars

\* an entry with two catalog threats in catalog order, and an entry with a
\* catalog threat followed by the detector's
C36_Witness ==
    /\ Len(entries) = 2
    /\ Len(entries[1].threats) = 2
    /\ entries[1].threats[2][1] # "ML Anomaly Detection"
    /\ entries[1].threats[1][2] # entries[1].threats[2][2]
    /\ Len(entries[2].threats) = 2
    /\ entries[2].threats[2][1] = "ML Anomaly Detection"
    /\ pc = "idle"

\* the lines recorded on parser q since its latest reset
RECURSIVE LinesOn(_, _)
LinesOn(q, cs) ==
    IF cs = <<>> THEN <<>>
    ELSE LET c == cs[Len(cs)]
             rest == SubSeq(cs, 1, Len(cs) - 1)
         IN  IF c.parser # q THEN LinesOn(q, rest)
             ELSE IF c.op = "reset" THEN <<>>
             ELSE Append(LinesOn(q, rest), c.line)

\* the statistics parser q reports
StatisticsOf(q) == get_statistics(instances[self_attributes(q)])

\* C37: aggregator ownership.  The statistics of each parser are those of the
\* lines recorded on that parser since its own latest reset, whatever was
\* recorded on or reset in the other parser; a call on one parser leaves the
\* statistics of every other parser as they were.
C37_AggregatorOwnership ==
    /\ [](\A q \in ParserNames :
             StatisticsOf(q).total_threats = MatchesIn(LinesOn(q, calls)))
    /\ [][calls' # calls =>
            \A q \in ParserNames \ {calls'[Len(calls')].parser} :
                /\ instances'[self_attributes(q)] = instances[self_attributes(q)]
                /\ get_statistics(instances'[self_attributes(q)]) = StatisticsOf(q)]_vars

\* one parser has counted threats, and the other was reset and then recorded
\* a line: each reports its own
C37_Witness ==
    /\ Len(calls) = 3
    /\ calls[1].parser = "p1" /\ calls[1].op = "analyze"
    /\ calls[2].parser = "p2" /\ calls[2].op = "reset"
    /\ calls[3].parser = "p2" /\ calls[3].op = "analyze"
    /\ StatisticsOf("p1").total_threats = 2
    /\ StatisticsOf("p2").total_threats = 1

\* C38: alert counter.  The count starts at 0 and moves only in a call that
\* delivered an email (it returned True after an SMTP session that sent the
\* message), and then by exactly one; a call that returns False or raises
\* (alerts disabled, incomplete configuration, below threshold, empty batch,
\* SMTP failure) and every other step leave it as it was, so it never
\* decreases and equals the number of deliveries.
C38_AlertCounter ==
    /\ alert_count = 0
    /\ [](last.email.ret = "true" =>
             last.email.called /\ last.email.session /\ last.email.log = "sent"
             /\ alert_count > 0)
    /\ [][IF last'.email.called /\ last'.email.ret = "true"
          THEN alert_count' = alert_count + 1
          ELSE alert_count' = alert_count]_vars

\* after one delivery, a call whose SMTP session failed: the count is still 1
C38_Witness ==
    /\ alert_count = 1
    /\ last.email.called
    /\ last.email.session
    /\ last.email.ret = "false"

\* the grammars in the order parse_log_line tries them
GrammarOrder == <<syslog_pattern, iso_pattern, simple_pattern>>

\* the line starts with the header of the grammar and goes on with a message
Accepts(pattern, line) ==
    Len(line) >= 2 /\ line[1] = pattern.header /\ line[2] \notin Whitespace

\* the grammars that accept the line while none tried before them does
FirstAccepting(line) ==
    {k \in 1..Len(GrammarOrder) :
        /\ Accepts(GrammarOrder[k], line)
        /\ \A j \in 1..(k - 1) : ~Accepts(GrammarOrder[j], line)}

\* the entry e is the one parse_log_line builds from the line: from the first
\* grammar that accepts it, or the UNKNOWN entry when none does
BuiltFrom(e, line) ==
    /\ e.raw_line = line
    /\ IF FirstAccepting(line) = {}
       THEN e.level = "UNKNOWN" /\ e.message = line /\ e.timestamp = Now
       ELSE \A k \in FirstAccepting(line) :
               /\ e.level = GrammarOrder[k].level
               /\ e.timestamp = GrammarOrder[k].timestamp
               /\ IsPrefix(e.message, Tail(line))
               /\ e.message # <<>>

\* C39: grammar priority.  parse_log_line builds the entry from the first of
\* the syslog, ISO and simple grammars that accepts the line, and the UNKNOWN
\* entry when none does; in every case the entry's raw line is the input line
\* unchanged and its threats are empty.  Every recorded entry has the fields
\* parse_log_line built for its line.
C39_GrammarPriority ==
    /\ \A line \in ApiLines :
           /\ BuiltFrom(parse_log_line(line), line)
           /\ parse_log_line(line).threats = <<>>
           /\ Cardinality(FirstAccepting(line)) <= 1
    /\ \A i \in 1..Len(entries) :
           /\ entries[i].raw_line \in ApiLines
           /\ BuiltFrom(entries[i], entries[i].raw_line)

\* one entry of each grammar, each with the level and timestamp of its own
C39_Witness ==
    /\ Len(entries) = 3
    /\ entries[1].raw_line = <<"SYS", "FL_A">> /\ entries[1].level = "sshd"
    /\ entries[2].raw_line = <<"ISO", "SQL", NL, "OK">> /\ entries[2].level = "ERROR"
    /\ entries[2].message = <<"SQL">>
    /\ entries[3].raw_line = <<"SIM", "FP_C">> /\ entries[3].level = "WARNING"

====
